---- MODULE Spec2Model ----
(***************************************************************************)
(* Model of the connection core of the Xentauri Pi Screen client:          *)
(* class XentauriWebSocket (connect / disconnect / forceReconnect, the     *)
(* socket event handlers, heartbeat, command dispatch and the backoff      *)
(* supervisor) together with the browser objects it drives: the WebSocket  *)
(* instances it creates, the setTimeout retry timers and the setInterval   *)
(* heartbeat timers.                                                       *)
(*                                                                         *)
(* The client is single threaded: every action below is one complete run   *)
(* of one callback or one public method.                                   *)
(***************************************************************************)
EXTENDS Integers, Sequences, FiniteSets, TLC

\* ---------------------------------------------------------------- bounds
\* number of connection attempts (calls of `new WebSocket`) explored
MaxSockets ==
    3
\* command ids the server draws from
MaxCommandId ==
    2
\* Math.random() is sampled at the points k / JitterSteps, 0 <= k < JitterSteps
JitterSteps ==
    8
\* attempt counts the backoff calculation is explored for on its own
MaxBackoffAttempts ==
    12
\* frames the server may have put on one session
MaxInFlight ==
    3
\* scenes, custom layouts and url paths the server draws from
MaxContent ==
    1
\* the clock advances in ticks of MAX_AGE / TicksPerMaxAge milliseconds
TicksPerMaxAge ==
    2
\* ticks the clock is followed for
MaxClock ==
    4

\* ------------------------------------------------------- program constants
\* close code the client passes in disconnect(), and the only code that
\* handleClose treats as a clean close
CLEAN_CLOSE ==
    1000
\* close code the browser reports when a close frame carried no status
\* (close() called without arguments)
NO_STATUS ==
    1005
\* close code the browser reports when the connection was lost or could not
\* be established
ABNORMAL ==
    1006
\* CONFIG.RECONNECT.BASE_DELAY, in ms
BASE_DELAY ==
    1000
\* CONFIG.RECONNECT.MAX_DELAY, in ms
MAX_DELAY ==
    30000
\* CONFIG.RECONNECT.MULTIPLIER = 1.5, as the fraction 3 / 2
MULTIPLIER_NUM ==
    3
MULTIPLIER_DEN ==
    2
\* CONFIG.RECONNECT.JITTER = 0.1, as the fraction 1 / 10
JITTER_DEN ==
    10
\* default maxAge of Helpers.loadFromStorage, in ms (one hour)
MAX_AGE ==
    3600000

VARIABLES
    agentIdOk,          \* this.agentId is set and is not the placeholder
    urlOk,              \* `new WebSocket(url)` accepts the url (does not throw)
    ws,                 \* this.ws: 0 = null, else index into socks
    connected,          \* this.connected
    reconnectAttempts,  \* this.reconnectAttempts
    reconnectTimer,     \* this.reconnectTimer: 0 = null, else a timer id
    heartbeatInterval,  \* this.heartbeatInterval: 0 = null, else an interval id
    socks,              \* every connection attempt made so far, in order
    timers,             \* ids of the setTimeout timers that are armed
    intervals,          \* ids of the setInterval timers that are armed
    out,                \* what the last step emitted: callbacks and frames
    wanted,             \* the owner's last request: TRUE after connect() or
                        \* forceReconnect(), FALSE after disconnect()
    last,               \* the last step taken and a snapshot of what it found
    sent,               \* the frames the server has put on the session, in order
    handled,            \* how many of them the browser has delivered
    trace,              \* everything the deliveries emitted, in order
    storage,            \* localStorage[CONFIG.STORAGE_KEY]
    screen,             \* what the display container shows
    currentScene,       \* SceneRenderer.currentScene: 0 = null
    appConnected,       \* XentauriApp.state.connected
    now,                \* Date.now(), in ticks
    appLast             \* the last step of the application and what it found

\* the fields of the client and the browser objects it drives
clientVars ==
    <<agentIdOk, urlOk, ws, connected, reconnectAttempts, reconnectTimer,
      heartbeatInterval, socks, timers, intervals, out, wanted, last>>

\* one session as the server and the browser see it
wireVars ==
    <<sent, handled, trace>>

\* the application: its renderer, its persisted record and the clock
appVars ==
    <<storage, screen, currentScene, appConnected, now, appLast>>

vars ==
    <<clientVars, wireVars, appVars>>

\* ------------------------------------------------------------ the browser
\* readyState of a WebSocket; FAILED marks an attempt whose constructor threw,
\* so that no object exists
ReadyStates ==
    {"CONNECTING", "OPEN", "CLOSING", "CLOSED", "FAILED"}

\* a fresh socket as `new WebSocket(url)` returns it
NewSocket ==
    [state |-> "CONNECTING", closedFrom |-> "", closeArg |-> 0]

\* a socket whose close event has been delivered
ClosedSocket ==
    [state |-> "CLOSED", closedFrom |-> "", closeArg |-> 0]

\* an attempt whose constructor threw
FailedSocket ==
    [state |-> "FAILED", closedFrom |-> "", closeArg |-> 0]

\* one emitted event: an observer callback, a handler call or a frame sent
Ev(kind, id, sock) ==
    [ev |-> kind, id |-> id, sock |-> sock, delay |-> 0]

\* onReconnecting({attempt, delay})
EvReconnecting(attempt, delay) ==
    [ev |-> "onReconnecting", id |-> attempt, sock |-> 0, delay |-> delay]

\* the state the methods of the class work on, as one record; out collects
\* the events of the step, armedFor the delay given to setTimeout in the step
St ==
    [ws |-> ws, connected |-> connected,
     reconnectAttempts |-> reconnectAttempts,
     reconnectTimer |-> reconnectTimer,
     heartbeatInterval |-> heartbeatInterval,
     socks |-> socks, timers |-> timers, intervals |-> intervals,
     out |-> <<>>, armedFor |-> 0]

emit(c, e) ==
    [c EXCEPT !.out = Append(@, e)]

\* WebSocket.close(code): a no-op on a closing or closed socket; otherwise the
\* socket starts closing and remembers from which state and, if it was open
\* (only then is a close frame sent), with which code
sockClose(c, s, arg) ==
    IF c.socks[s].state \in {"CONNECTING", "OPEN"}
    THEN [c EXCEPT !.socks[s] =
             [state |-> "CLOSING",
              closedFrom |-> c.socks[s].state,
              closeArg |-> IF c.socks[s].state = "OPEN" THEN arg ELSE 0]]
    ELSE c

\* the codes the close event of a socket k may carry: 1006 when the connection
\* could not be established or was lost; for an open socket the code of the
\* server's close frame (1000 when it echoes the client's or closes normally,
\* 1005 when the frame carries none, as after close() without a code)
CloseCodes(k) ==
    CASE k.state = "CONNECTING" -> {ABNORMAL}
      [] k.state = "OPEN" -> {CLEAN_CLOSE, ABNORMAL}
      [] k.state = "CLOSING" /\ k.closedFrom = "CONNECTING" -> {ABNORMAL}
      [] k.state = "CLOSING" /\ k.closeArg = CLEAN_CLOSE -> {CLEAN_CLOSE, ABNORMAL}
      [] k.state = "CLOSING" -> {NO_STATUS, ABNORMAL}
      [] OTHER -> {}

\* -------------------------------------------------------------- the client
\* startHeartbeat(): id names the interval setInterval returns
startHeartbeat(c, id) ==
    LET c1 == IF c.heartbeatInterval # 0
              THEN [c EXCEPT !.intervals = @ \ {c.heartbeatInterval}]
              ELSE c
    IN [c1 EXCEPT !.heartbeatInterval = id, !.intervals = @ \cup {id}]

\* the jitter samples: k stands for Math.random() = k / JitterSteps
JitterSamples ==
    0 .. (JitterSteps - 1)

\* Math.random() is called only inside calculateReconnectDelay: a step that
\* does not schedule a retry draws no sample, and one that does is explored
\* for the least and the greatest sample
SamplesIf(schedules) ==
    IF schedules THEN {0, JitterSteps - 1} ELSE {0}

RECURSIVE Pow(_, _)
Pow(b, n) ==
    IF n = 0 THEN 1 ELSE b * Pow(b, n - 1)

\* Math.min(BASE_DELAY * Math.pow(MULTIPLIER, n), MAX_DELAY) as the fraction
\* num / den
CappedDelay(n) ==
    LET num == BASE_DELAY * Pow(MULTIPLIER_NUM, n)
        den == Pow(MULTIPLIER_DEN, n)
    IN IF num > MAX_DELAY * den
       THEN [num |-> MAX_DELAY, den |-> 1]
       ELSE [num |-> num, den |-> den]

\* Math.round(num / den) for num >= 0: the nearest integer, halves go up
Round(num, den) ==
    (2 * num + den) \div (2 * den)

\* calculateReconnectDelay() with twice the jitter fraction
calculateReconnectDelayWideJitter(n, k) ==
    LET d == CappedDelay(n)
    IN Round((d.num \div JITTER_DEN)
                 * (JITTER_DEN * JitterSteps - 2 * JitterSteps + 4 * k),
             d.den * JitterSteps)

\* calculateReconnectDelay() for this.reconnectAttempts = n and
\* Math.random() = k / JitterSteps:
\*   delay = min(BASE * MULT^n, MAX); jitterAmount = delay * JITTER;
\*   delay += random * jitterAmount * 2 - jitterAmount; Math.round(delay)
\* that is  delay * (JITTER_DEN * R - R + 2k) / (JITTER_DEN * R)
\* (BASE_DELAY and MAX_DELAY are multiples of JITTER_DEN, which is divided out
\* first to keep the products small)
calculateReconnectDelay(n, k) ==
    LET d == CappedDelay(n)
    IN Round((d.num \div JITTER_DEN)
                 * (JITTER_DEN * JitterSteps - JitterSteps + 2 * k),
             d.den * JitterSteps)

\* scheduleReconnect() that announces the base delay whatever it arms
scheduleReconnectAnnouncesBase(c, id, k) ==
    LET c1 == [c EXCEPT !.reconnectAttempts = @ + 1]
        delay == calculateReconnectDelay(c1.reconnectAttempts, k)
        c2 == emit(c1, EvReconnecting(c1.reconnectAttempts, BASE_DELAY))
    IN [c2 EXCEPT !.reconnectTimer = id, !.timers = @ \cup {id},
                  !.armedFor = delay]

\* scheduleReconnect() that gives up after the first retry
scheduleReconnectGivesUp(c, id, k) ==
    LET c1 == [c EXCEPT !.reconnectAttempts = @ + 1]
        delay == calculateReconnectDelay(c1.reconnectAttempts, k)
        c2 == emit(c1, EvReconnecting(c1.reconnectAttempts, delay))
    IN IF c1.reconnectAttempts > 1 THEN c1
       ELSE [c2 EXCEPT !.reconnectTimer = id, !.timers = @ \cup {id}]

\* scheduleReconnect() run twice for one failure
scheduleReconnectTwice(c, id, k) ==
    LET c1 == [c EXCEPT !.reconnectAttempts = @ + 2]
        delay == calculateReconnectDelay(c1.reconnectAttempts, k)
        c2 == emit(emit(c1, EvReconnecting(c1.reconnectAttempts - 1, delay)),
                   EvReconnecting(c1.reconnectAttempts, delay))
    IN [c2 EXCEPT !.reconnectTimer = id, !.timers = @ \cup {id}]

\* scheduleReconnect(): id names the timer setTimeout returns, k the jitter
\* sample
scheduleReconnect(c, id, k) ==
    LET c1 == [c EXCEPT !.reconnectAttempts = @ + 1]
        delay == calculateReconnectDelay(c1.reconnectAttempts, k)
        c2 == emit(c1, EvReconnecting(c1.reconnectAttempts, delay))
    IN [c2 EXCEPT !.reconnectTimer = id, !.timers = @ \cup {id},
                  !.armedFor = delay]

\* connect() that leaves the existing socket alone
connectKeepsOldSocket(c, n, k) ==
    IF ~agentIdOk
    THEN emit(c, Ev("onError:config_error", 0, 0))
    ELSE LET c2 == IF c.reconnectTimer # 0
                   THEN [c EXCEPT !.timers = @ \ {c.reconnectTimer},
                                  !.reconnectTimer = 0]
                   ELSE c
         IN IF urlOk
            THEN [c2 EXCEPT !.socks = Append(@, NewSocket), !.ws = n]
            ELSE scheduleReconnect(
                     [c2 EXCEPT !.socks = Append(@, FailedSocket)], n, k)

\* connect() whose catch block only logs
connectOnlyLogsFailure(c, n, k) ==
    IF ~agentIdOk
    THEN emit(c, Ev("onError:config_error", 0, 0))
    ELSE LET c1 == IF c.reconnectTimer # 0
                   THEN [c EXCEPT !.timers = @ \ {c.reconnectTimer},
                                  !.reconnectTimer = 0]
                   ELSE c
             c2 == IF c1.ws # 0 THEN sockClose(c1, c1.ws, 0) ELSE c1
         IN IF urlOk
            THEN [c2 EXCEPT !.socks = Append(@, NewSocket), !.ws = n]
            ELSE [c2 EXCEPT !.socks = Append(@, FailedSocket)]

\* connect() that treats a missing identity like a failed attempt
connectRetriesConfigError(c, n, k) ==
    IF ~agentIdOk
    THEN scheduleReconnect(emit(c, Ev("onError:config_error", 0, 0)), n, k)
    ELSE LET c1 == IF c.reconnectTimer # 0
                   THEN [c EXCEPT !.timers = @ \ {c.reconnectTimer},
                                  !.reconnectTimer = 0]
                   ELSE c
             c2 == IF c1.ws # 0 THEN sockClose(c1, c1.ws, 0) ELSE c1
         IN IF urlOk
            THEN [c2 EXCEPT !.socks = Append(@, NewSocket), !.ws = n]
            ELSE scheduleReconnect(
                     [c2 EXCEPT !.socks = Append(@, FailedSocket)], n, k)

\* connect(): n is the index the new attempt gets
connect(c, n, k) ==
    IF ~agentIdOk
    THEN emit(c, Ev("onError:config_error", 0, 0))
    ELSE LET c1 == IF c.reconnectTimer # 0
                   THEN [c EXCEPT !.timers = @ \ {c.reconnectTimer},
                                  !.reconnectTimer = 0]
                   ELSE c
             c2 == IF c1.ws # 0 THEN sockClose(c1, c1.ws, 0) ELSE c1
         IN IF urlOk
            THEN [c2 EXCEPT !.socks = Append(@, NewSocket), !.ws = n]
            ELSE scheduleReconnect(
                     [c2 EXCEPT !.socks = Append(@, FailedSocket)], n, k)

\* disconnect()
disconnect(c) ==
    LET c1 == IF c.heartbeatInterval # 0
              THEN [c EXCEPT !.intervals = @ \ {c.heartbeatInterval},
                             !.heartbeatInterval = 0]
              ELSE c
        c2 == IF c1.reconnectTimer # 0
              THEN [c1 EXCEPT !.timers = @ \ {c1.reconnectTimer},
                              !.reconnectTimer = 0]
              ELSE c1
        c3 == IF c2.ws # 0
              THEN [sockClose(c2, c2.ws, CLEAN_CLOSE) EXCEPT !.ws = 0]
              ELSE c2
    IN [c3 EXCEPT !.connected = FALSE]

\* forceReconnect()
forceReconnect(c, n, k) ==
    LET c1 == [c EXCEPT !.reconnectAttempts = 0]
        c2 == IF c1.reconnectTimer # 0
              THEN [c1 EXCEPT !.timers = @ \ {c1.reconnectTimer},
                              !.reconnectTimer = 0]
              ELSE c1
    IN connect(c2, n, k)

\* handleOpen() that leaves everything to the welcome message
handleOpenAwaitsWelcome(c, s) ==
    c

\* handleOpen() with the counter reset left out
handleOpenKeepsCount(c, s) ==
    LET c1 == [c EXCEPT !.connected = TRUE]
        c2 == startHeartbeat(c1, s)
    IN emit(c2, Ev("onConnected", 0, 0))

\* handleOpen(), run by the open event of socket s
handleOpen(c, s) ==
    LET c1 == [c EXCEPT !.connected = TRUE, !.reconnectAttempts = 0]
        c2 == startHeartbeat(c1, s)
    IN emit(c2, Ev("onConnected", 0, 0))

\* handleClose(event) with the clearInterval left out
handleCloseKeepsHeartbeat(c, s, code, k) ==
    LET c1 == [c EXCEPT !.connected = FALSE]
        c3 == emit(c1, Ev("onDisconnected", code, 0))
    IN IF code # CLEAN_CLOSE THEN scheduleReconnect(c3, s, k) ELSE c3

\* handleClose(event), run by the close event of socket s
handleClose(c, s, code, k) ==
    LET c1 == [c EXCEPT !.connected = FALSE]
        c2 == IF c1.heartbeatInterval # 0
              THEN [c1 EXCEPT !.intervals = @ \ {c1.heartbeatInterval},
                              !.heartbeatInterval = 0]
              ELSE c1
        c3 == emit(c2, Ev("onDisconnected", code, 0))
    IN IF code # CLEAN_CLOSE THEN scheduleReconnect(c3, s, k) ELSE c3

\* the check of send(message) without the readyState half
canSendAnyState(c) ==
    c.ws # 0

\* send(message): TRUE iff the frame was handed to an open socket
canSend(c) ==
    c.ws # 0 /\ c.socks[c.ws].state = "OPEN"

send(c, kind, id) ==
    IF canSend(c) THEN emit(c, Ev(kind, id, c.ws)) ELSE c

\* scheduleReconnect() when the onReconnecting observer throws: the counter
\* is already incremented and the observer has been called; setTimeout, the
\* statement after the call, is never reached
scheduleReconnectObserverThrows(c, k) ==
    LET c1 == [c EXCEPT !.reconnectAttempts = @ + 1]
        delay == calculateReconnectDelay(c1.reconnectAttempts, k)
    IN emit(c1, EvReconnecting(c1.reconnectAttempts, delay))

\* handleClose(event) when the observer `who` throws: onDisconnected is called
\* after the flag and the heartbeat are cleared and before the code is
\* looked at; onReconnecting is called inside scheduleReconnect. Nothing
\* catches the exception, so the handler ends where it was thrown
handleCloseObserverThrows(c, s, code, k, who) ==
    LET c1 == [c EXCEPT !.connected = FALSE]
        c2 == IF c1.heartbeatInterval # 0
              THEN [c1 EXCEPT !.intervals = @ \ {c1.heartbeatInterval},
                              !.heartbeatInterval = 0]
              ELSE c1
        c3 == emit(c2, Ev("onDisconnected", code, 0))
    IN IF who = "onDisconnected" THEN c3
       ELSE scheduleReconnectObserverThrows(c3, k)

\* send(message) without the readyState check
publicSendAnyState(c, serializable) ==
    IF serializable THEN emit(c, Ev("sent:message", 0, c.ws)) ELSE c

\* send(message) as the owner calls it: serializable says whether
\* JSON.stringify(message) succeeds; a failure is caught inside send
publicSend(c, serializable) ==
    IF serializable THEN send(c, "sent:message", 0) ELSE c

\* the value send(message) returns
sendReturns(c, serializable) ==
    canSend(c) /\ serializable

\* sendAck(commandId, status): status is always 'completed'
sendAck(c, id) ==
    send(c, "sent:ack:completed", id)

\* sendHeartbeat()
sendHeartbeat(c) ==
    send(c, "sent:heartbeat", 0)

\* this.onCommand(...): the callback is told the command and may call back
\* into the client before it returns (m.effect); XentauriApp.handleCommand
\* never does
onCommand(c, m) ==
    LET c1 == emit(c, Ev("onCommand", m.command_id, 0))
    IN CASE m.effect = "disconnect" -> disconnect(c1)
         [] m.effect = "forceReconnect" ->
                forceReconnect(c1, Len(c1.socks) + 1, 0)
         [] OTHER -> c1

\* handleCommand(data) acknowledging before it calls onCommand
handleCommandAckFirst(c, m) ==
    onCommand(sendAck(c, m.command_id), m)

\* handleCommand(data): onCommand first, then the ack; a throwing onCommand
\* leaves the method before sendAck. No field of data is checked: a missing
\* command_id or command_type is passed on as undefined (0 here)
handleCommand(c, m) ==
    LET c1 == onCommand(c, m)
    IN IF m.throws THEN c1 ELSE sendAck(c1, m.command_id)

\* handleMessage(event) that reports an undecodable frame to onError
handleMessageReportsGarbage(c, m) ==
    IF ~m.json THEN emit(c, Ev("onError:parse_error", 0, 0))
    ELSE IF m.type = "command" THEN handleCommand(c, m)
    ELSE c

\* handleMessage(event): everything runs inside one try/catch, so neither a
\* JSON.parse error nor an exception of onCommand leaves the method
handleMessage(c, m) ==
    IF ~m.json THEN c
    ELSE IF m.type = "command" THEN handleCommand(c, m)
    ELSE c

\* the frames the server may deliver: undecodable text, the welcome, a
\* heartbeat echo, an unknown type, and commands. onCommand is
\* XentauriApp.handleCommand: for a command_type it knows it runs a renderer,
\* which returns or throws; for any other type it only logs
Msg(json, type, id, hasType, known, throws, effect) ==
    [json |-> json, type |-> type, command_id |-> id, hasType |-> hasType,
     known |-> known, throws |-> throws, effect |-> effect]

\* command frames that lack a required field: one without command_id (0
\* stands for undefined) and one without command_type, which
\* XentauriApp.handleCommand sends to its default branch
MalformedCommands ==
    {Msg(TRUE, "command", 0, TRUE, TRUE, FALSE, "none"),
     Msg(TRUE, "command", 1, FALSE, FALSE, FALSE, "none")}

Messages ==
    {Msg(FALSE, "garbled", 0, FALSE, FALSE, FALSE, "none")}
    \cup {Msg(TRUE, t, 0, FALSE, FALSE, FALSE, "none") :
              t \in {"connected", "heartbeat_ack", "other"}}
    \cup {Msg(TRUE, "command", i, TRUE, TRUE, x, "none") :
              i \in 1..MaxCommandId, x \in BOOLEAN}
    \cup {Msg(TRUE, "command", i, TRUE, FALSE, FALSE, "none") :
              i \in 1..MaxCommandId}
    \cup MalformedCommands

\* commands given to an onCommand callback that closes or replaces the
\* session before it returns
ReentrantMessages ==
    {Msg(TRUE, "command", i, TRUE, TRUE, FALSE, e) :
        i \in 1..MaxCommandId, e \in {"disconnect", "forceReconnect"}}

\* how a step that delivers frame m is recorded
MessageOp(m) ==
    CASE m.type # "command" -> "message"
      [] m \in MalformedCommands -> "command:malformed"
      [] m.throws -> "command:throws"
      [] OTHER -> "command"

\* -------------------------------------------------------- the application
\* XentauriApp with SceneRenderer and Helpers' storage functions, as record
\* transformers over the record Ap; t is the value of Date.now(), in ticks

\* one tick of the clock, in ms
TickMs ==
    MAX_AGE \div TicksPerMaxAge

\* no url (undefined)
NoUrl ==
    [host |-> "", path |-> 0]

\* the urls a show_content command may carry: host "" is a url that starts
\* with '/', any other host an absolute url
Urls ==
    {[host |-> h, path |-> p] : h \in {"", "other"}, p \in 1..MaxContent}

\* handleShowContent: a url that starts with '/' is prefixed with
\* CONFIG.BACKEND_URL
fullUrl(u) ==
    IF u.host = "" THEN [u EXCEPT !.host = "BACKEND_URL"] ELSE u

\* the data of a persisted record: 0, NoUrl and "" stand for a missing key
NoData ==
    [scene |-> 0, customLayout |-> 0, url |-> NoUrl, contentType |-> ""]

\* localStorage holds nothing under CONFIG.STORAGE_KEY
NoRecord ==
    [type |-> "none", data |-> NoData, timestamp |-> 0]

\* the display container is empty (innerHTML = '')
Blank ==
    [kind |-> "blank", scene |-> 0, customLayout |-> 0, src |-> NoUrl]

Ap ==
    [storage |-> storage, screen |-> screen, currentScene |-> currentScene]

\* Helpers.saveToStorage(key, {type, data}): the record is stamped with
\* Date.now()
saveToStorage(a, type, data, t) ==
    [a EXCEPT !.storage = [type |-> type, data |-> data, timestamp |-> t]]

\* saveState(type, data)
saveState(a, type, data, t) ==
    saveToStorage(a, type, data, t)

\* the test of loadFromStorage: age > maxAge, in ms
Expired(rec, t) ==
    (t - rec.timestamp) * TickMs > MAX_AGE

\* what Helpers.loadFromStorage(key) returns: NoRecord stands for null
loadFromStorage(a, t) ==
    IF a.storage = NoRecord \/ Expired(a.storage, t) THEN NoRecord
    ELSE a.storage

\* what Helpers.loadFromStorage(key) leaves: a record that is too old is
\* removed
loadFromStorageLeaves(a, t) ==
    IF a.storage # NoRecord /\ Expired(a.storage, t)
    THEN [a EXCEPT !.storage = NoRecord]
    ELSE a

\* Helpers.clearStorage(key)
clearStorage(a) ==
    [a EXCEPT !.storage = NoRecord]

\* SceneRenderer.clear()
clear(a) ==
    [a EXCEPT !.screen = Blank, !.currentScene = 0]

\* SceneRenderer.render(scene)
render(a, scene) ==
    [clear(a) EXCEPT !.screen = [Blank EXCEPT !.kind = "scene",
                                              !.scene = scene],
                     !.currentScene = scene]

\* what SceneRenderer.renderCustomLayout(html) returns: false unless html is
\* a non-empty string (0 stands for a missing value, -1 for a value that is
\* not a string)
renderCustomLayoutReturns(html) ==
    html > 0

\* SceneRenderer.renderCustomLayout(html, sceneFallback): the fallback is
\* only logged; currentScene is set to null
renderCustomLayout(a, html) ==
    IF ~renderCustomLayoutReturns(html) THEN a
    ELSE [clear(a) EXCEPT !.screen = [Blank EXCEPT !.kind = "custom_layout",
                                                   !.customLayout = html],
                          !.currentScene = 0]

\* SceneRenderer.showIdleScreen()
showIdleScreen(a) ==
    [clear(a) EXCEPT !.screen = [Blank EXCEPT !.kind = "idle"]]

\* SceneRenderer.hasScene()
hasScene(a) ==
    a.currentScene # 0

\* handleDisplayScene(params)
handleDisplayScene(a, scene, customLayout, t) ==
    IF customLayout # 0 /\ renderCustomLayoutReturns(customLayout)
    THEN saveState(renderCustomLayout(a, customLayout), "custom_layout",
                   [NoData EXCEPT !.customLayout = customLayout,
                                  !.scene = scene], t)
    ELSE IF scene = 0 THEN a
    ELSE saveState(render(a, scene), "scene",
                   [NoData EXCEPT !.scene = scene], t)

\* handleShowContent(params): params.url and params.content_type are read;
\* the iframe is appended to the container the renderer has just cleared
handleShowContent(a, url, content_type, t) ==
    LET contentType == IF content_type = "" THEN "url" ELSE content_type
        a1 == clear(a)
        a2 == [a1 EXCEPT !.screen = [Blank EXCEPT !.kind = "iframe",
                                                  !.src = fullUrl(url)]]
    IN IF url = NoUrl THEN a
       ELSE saveState(a2, "content",
                      [NoData EXCEPT !.url = fullUrl(url),
                                     !.contentType = contentType], t)

\* handleClearContent() that leaves the persisted record in place
handleClearContentKeepsRecord(a) ==
    showIdleScreen(clear(a))

\* handleClearContent()
handleClearContent(a) ==
    clearStorage(showIdleScreen(clear(a)))

\* handlePowerOff()
handlePowerOff(a) ==
    handleClearContent(a)

\* restoreState(): a 'content' record is handed to handleShowContent as its
\* params; the record has the key contentType, not content_type
restoreState(a, t) ==
    LET saved == loadFromStorage(a, t)
        a1 == loadFromStorageLeaves(a, t)
    IN IF saved = NoRecord THEN a1
       ELSE IF saved.type = "custom_layout" /\ saved.data.customLayout # 0
       THEN IF renderCustomLayoutReturns(saved.data.customLayout)
            THEN renderCustomLayout(a1, saved.data.customLayout)
            ELSE IF saved.data.scene # 0 THEN render(a1, saved.data.scene)
            ELSE a1
       ELSE IF saved.type = "scene" /\ saved.data.scene # 0
       THEN render(a1, saved.data.scene)
       ELSE IF saved.type = "content" /\ saved.data.url # NoUrl
       THEN handleShowContent(a1, saved.data.url, "", t)
       ELSE a1

\* XentauriApp.handleConnected(): CONFIG.PERSIST_CONTENT is true
handleConnected(a, t) ==
    LET a1 == restoreState(a, t)
    IN IF ~hasScene(a1) THEN showIdleScreen(a1) ELSE a1

\* a command as XentauriApp.handleCommand receives it
Cmd(commandType, scene, customLayout, url, content_type) ==
    [commandType |-> commandType, scene |-> scene,
     custom_layout |-> customLayout, url |-> url,
     content_type |-> content_type]

\* the commands the server may send: display_scene with or without a scene
\* and a custom layout, show_content with or without a url and a content
\* type, clear_content, power_off, loading_start and an unknown type
AppCommands ==
    {Cmd("display_scene", sc, cl, NoUrl, "") :
        sc \in 0..MaxContent, cl \in -1..MaxContent}
    \cup {Cmd("show_content", 0, 0, u, ct) :
             u \in Urls \cup {NoUrl}, ct \in {"", "video"}}
    \cup {Cmd(ty, 0, 0, NoUrl, "") :
             ty \in {"clear_content", "power_off", "loading_start", "other"}}

\* XentauriApp.handleCommand(cmd): loading_start only drives the thinking
\* indicator, an unknown type is logged
appHandleCommand(a, cmd, t) ==
    CASE cmd.commandType = "display_scene" ->
            handleDisplayScene(a, cmd.scene, cmd.custom_layout, t)
      [] cmd.commandType = "show_content" ->
            handleShowContent(a, cmd.url, cmd.content_type, t)
      [] cmd.commandType = "clear_content" -> handleClearContent(a)
      [] cmd.commandType = "power_off" -> handlePowerOff(a)
      [] OTHER -> a

\* the page as it loads with nothing persisted: XentauriApp.init() gives the
\* renderer its container and restores nothing before the first connection
InitApp ==
    /\ storage = NoRecord
    /\ screen = Blank
    /\ currentScene = 0
    /\ appConnected = FALSE
    /\ now = 0
    /\ appLast = [op |-> "init", storage |-> NoRecord, screen |-> Blank,
                  now |-> 0, cleared |-> FALSE]

\* a session on which the server has sent nothing yet
InitWire ==
    /\ sent = <<>>
    /\ handled = 0
    /\ trace = <<>>

\* --------------------------------------------------------------- the steps
Snapshot(op, s, code) ==
    [op |-> op, sock |-> s, code |-> code,
     ws0 |-> ws, connected0 |-> connected, attempts0 |-> reconnectAttempts,
     timers0 |-> timers, intervals0 |-> intervals, nsocks0 |-> Len(socks),
     state0 |-> IF s = 0 THEN "" ELSE socks[s].state, known |-> FALSE,
     mtype |-> "", effect |-> "none", ret |-> FALSE, armedFor |-> 0]

CommitClient(c, l, w) ==
    /\ wanted' = w
    /\ ws' = c.ws
    /\ connected' = c.connected
    /\ reconnectAttempts' = c.reconnectAttempts
    /\ reconnectTimer' = c.reconnectTimer
    /\ heartbeatInterval' = c.heartbeatInterval
    /\ socks' = c.socks
    /\ timers' = c.timers
    /\ intervals' = c.intervals
    /\ out' = c.out
    /\ last' = [l EXCEPT !.armedFor = c.armedFor]
    /\ UNCHANGED <<agentIdOk, urlOk>>

\* a step of the client that no frame of the wire and nothing of the
\* application takes part in
Commit(c, l, w) ==
    /\ CommitClient(c, l, w)
    /\ UNCHANGED <<wireVars, appVars>>

InitFields ==
    /\ ws = 0
    /\ connected = FALSE
    /\ reconnectTimer = 0
    /\ heartbeatInterval = 0
    /\ socks = <<>>
    /\ timers = {}
    /\ intervals = {}
    /\ out = <<>>
    /\ wanted = FALSE
    /\ last = [op |-> "init", sock |-> 0, code |-> 0, ws0 |-> 0,
               connected0 |-> FALSE, attempts0 |-> 0, timers0 |-> {},
               intervals0 |-> {}, nsocks0 |-> 0, state0 |-> "",
               known |-> FALSE, mtype |-> "", effect |-> "none",
               ret |-> FALSE, armedFor |-> 0]
    /\ InitWire
    /\ InitApp

\* the client as its constructor leaves it
InitClient ==
    /\ InitFields
    /\ reconnectAttempts = 0

\* the deployed client: XentauriApp.initWebSocket constructs it only with a
\* stored agent id, and the url is CONFIG.WS_URL plus the encoded agent id,
\* which the WebSocket constructor accepts
Init ==
    /\ agentIdOk = TRUE
    /\ urlOk = TRUE
    /\ InitClient

\* any client the class can be constructed as: the agent id may be missing or
\* the placeholder, and the url may be one the WebSocket constructor rejects
InitAnyConfig ==
    /\ agentIdOk \in BOOLEAN
    /\ urlOk \in BOOLEAN
    /\ InitClient

\* the owner calls connect()
Connect(k) ==
    /\ Len(socks) < MaxSockets
    /\ Commit(connect(St, Len(socks) + 1, k), Snapshot("connect", 0, 0), TRUE)

\* the owner calls disconnect()
Disconnect ==
    /\ Commit(disconnect(St), Snapshot("disconnect", 0, 0), FALSE)

\* the owner calls forceReconnect()
ForceReconnect(k) ==
    /\ Len(socks) < MaxSockets
    /\ Commit(forceReconnect(St, Len(socks) + 1, k),
              Snapshot("forceReconnect", 0, 0), TRUE)

\* the connection of socket s is established: open event
SockOpen(s) ==
    /\ socks[s].state = "CONNECTING"
    /\ Commit(handleOpen([St EXCEPT !.socks[s].state = "OPEN"], s),
              Snapshot("open", s, 0), wanted)

\* socket s is closed (by the server, the network, or the end of a closing
\* handshake the client began): close event with one of the possible codes
SockClose(s, code, k) ==
    /\ code \in CloseCodes(socks[s])
    /\ Commit(handleClose([St EXCEPT !.socks[s] = ClosedSocket], s, code, k),
              Snapshot("close", s, code), wanted)

\* socket s reports an error: handleError only notifies onError
SockError(s) ==
    /\ socks[s].state \in {"CONNECTING", "OPEN", "CLOSING"}
    /\ Commit(emit(St, Ev("onError:websocket_error", 0, 0)),
              Snapshot("error", s, 0), wanted)

\* socket s delivers a frame; a socket the client is closing still delivers
\* what the server sent before the closing handshake ends
SockMessage(s, m) ==
    /\ \/ socks[s].state = "OPEN"
       \/ socks[s].state = "CLOSING" /\ socks[s].closedFrom = "OPEN"
    /\ m.effect = "forceReconnect" => Len(socks) < MaxSockets
    /\ Commit(handleMessage(St, m),
              [Snapshot(MessageOp(m), s, m.command_id) EXCEPT
                  !.known = m.known, !.mtype = m.type, !.effect = m.effect],
              CASE m.effect = "disconnect" -> FALSE
                [] m.effect = "forceReconnect" -> TRUE
                [] OTHER -> wanted)

\* close event of socket s while the observer `who` of the owner throws
SockCloseObserverThrows(s, code, k, who) ==
    /\ code \in CloseCodes(socks[s])
    /\ who = "onReconnecting" => code # CLEAN_CLOSE
    /\ Commit(handleCloseObserverThrows(
                  [St EXCEPT !.socks[s] = ClosedSocket], s, code, k, who),
              Snapshot("close:throws", s, code), wanted)

\* the owner calls send(message)
Send(serializable) ==
    /\ Commit(publicSend(St, serializable),
              [Snapshot("send", 0, 0) EXCEPT
                  !.ret = sendReturns(St, serializable)],
              wanted)

\* retry timer t fires: its callback calls connect()
TimerFire(t, k) ==
    /\ t \in timers
    /\ Len(socks) < MaxSockets
    /\ Commit(connect([St EXCEPT !.timers = @ \ {t}], Len(socks) + 1, k),
              Snapshot("timer", t, 0), wanted)

\* heartbeat interval h ticks: it sends a heartbeat if this.connected
HeartbeatTick(h) ==
    /\ h \in intervals
    /\ Commit(IF connected THEN sendHeartbeat(St) ELSE St,
              Snapshot("heartbeat", h, 0), wanted)

Next ==
    \/ \E k \in SamplesIf(agentIdOk /\ ~urlOk) : Connect(k)
    \/ Disconnect
    \/ \E k \in SamplesIf(agentIdOk /\ ~urlOk) : ForceReconnect(k)
    \/ \E s \in 1..Len(socks) : SockOpen(s)
    \/ \E s \in 1..Len(socks) : \E code \in CloseCodes(socks[s]) :
          \E k \in SamplesIf(code # CLEAN_CLOSE) : SockClose(s, code, k)
    \/ \E s \in 1..Len(socks) : SockError(s)
    \/ \E s \in 1..Len(socks) : \E m \in Messages : SockMessage(s, m)
    \/ \E t \in timers : \E k \in SamplesIf(agentIdOk /\ ~urlOk) :
          TimerFire(t, k)
    \/ \E h \in intervals : HeartbeatTick(h)
    \/ \E serializable \in BOOLEAN : Send(serializable)

Spec ==
    Init /\ [][Next]_vars

SpecAnyConfig ==
    InitAnyConfig /\ [][Next]_vars

\* calculateReconnectDelay() on its own: any attempt count, any sample
InitDelay ==
    /\ agentIdOk = TRUE
    /\ urlOk = TRUE
    /\ InitFields
    /\ reconnectAttempts \in 0..MaxBackoffAttempts

\* one call of calculateReconnectDelay(): the result is recorded as the
\* delay of an onReconnecting event, the sample in last.code
CalculateDelay(k) ==
    /\ out' = <<EvReconnecting(reconnectAttempts,
                               calculateReconnectDelay(reconnectAttempts, k))>>
    /\ last' = Snapshot("delay", 0, k)
    /\ UNCHANGED <<agentIdOk, urlOk, ws, connected, reconnectAttempts,
                   reconnectTimer, heartbeatInterval, socks, timers,
                   intervals, wanted>>
    /\ UNCHANGED <<wireVars, appVars>>

NextDelay ==
    \E k \in JitterSamples : CalculateDelay(k)

SpecDelay ==
    InitDelay /\ [][NextDelay]_vars

\* a pending retry timer fires: setTimeout runs its callback once the delay,
\* which is finite, has passed
RetryTimerFires ==
    \E t \in timers : \E k \in SamplesIf(agentIdOk /\ ~urlOk) : TimerFire(t, k)

\* the client while the owner never calls disconnect(): the owner may call
\* connect() and forceReconnect(), sockets open and close, timers fire
NextRetry ==
    \/ \E k \in SamplesIf(agentIdOk /\ ~urlOk) : Connect(k)
    \/ \E k \in SamplesIf(agentIdOk /\ ~urlOk) : ForceReconnect(k)
    \/ \E s \in 1..Len(socks) : SockOpen(s)
    \/ \E s \in 1..Len(socks) : \E code \in CloseCodes(socks[s]) :
          \E k \in SamplesIf(code # CLEAN_CLOSE) : SockClose(s, code, k)
    \/ RetryTimerFires

SpecRetry ==
    InitAnyConfig /\ [][NextRetry]_vars /\ WF_vars(RetryTimerFires)

\* the client under an owner whose onDisconnected or onReconnecting observer
\* may throw
NextThrowingObserver ==
    \/ Next
    \/ \E s \in 1..Len(socks) : \E code \in CloseCodes(socks[s]) :
          \E k \in SamplesIf(code # CLEAN_CLOSE) :
             \E who \in {"onDisconnected", "onReconnecting"} :
                SockCloseObserverThrows(s, code, k, who)

SpecThrowingObserver ==
    Init /\ [][NextThrowingObserver]_vars

\* the client under an owner whose onCommand callback may also call
\* disconnect() or forceReconnect() before it returns
NextAnyHandler ==
    \/ Next
    \/ \E s \in 1..Len(socks) : \E m \in ReentrantMessages : SockMessage(s, m)

SpecAnyHandler ==
    Init /\ [][NextAnyHandler]_vars

TypeOK ==
    /\ ws \in 0..MaxSockets
    /\ connected \in BOOLEAN
    /\ reconnectAttempts \in 0..MaxSockets
    /\ reconnectTimer \in 0..MaxSockets
    /\ heartbeatInterval \in 0..MaxSockets
    /\ Len(socks) <= MaxSockets
    /\ \A s \in 1..Len(socks) : socks[s].state \in ReadyStates
    /\ timers \subseteq 1..MaxSockets
    /\ intervals \subseteq 1..MaxSockets

\* ------------------------------------------------------------------ claims
\* the current socket exists and is open
CurrentOpen ==
    ws # 0 /\ socks[ws].state = "OPEN"

\* C1: at most one retry timer is pending in every reachable state
C1_OneRetryTimer ==
    Cardinality(timers) <= 1

\* C2: after forceReconnect() is called while a retry timer is pending the
\* counter is 0, a new attempt is under way at once and no timer that was
\* scheduled before the call is left to fire
C2_ForceReconnectSupersedes ==
    (last.op = "forceReconnect" /\ last.timers0 # {}) =>
        /\ reconnectAttempts = 0
        /\ Len(socks) = last.nsocks0 + 1
        /\ ws = Len(socks)
        /\ socks[ws].state = "CONNECTING"
        /\ timers \cap last.timers0 = {}

\* C3: from disconnect() until the owner calls connect() or forceReconnect()
\* again the client stays disconnected: no retry timer is armed and no socket
\* is connecting or open
C3_StaysDisconnected ==
    ~wanted =>
        /\ timers = {}
        /\ ws = 0
        /\ ~connected
        /\ \A s \in 1..Len(socks) : socks[s].state \notin {"CONNECTING", "OPEN"}

\* C4: every close of the current session that the owner did not ask for,
\* whatever its close code, schedules a retry
C4_UnrequestedCloseRetries ==
    (last.op = "close" /\ last.sock = last.ws0
        /\ last.state0 \in {"CONNECTING", "OPEN"}) =>
        /\ reconnectTimer = last.sock
        /\ last.sock \in timers
        /\ reconnectAttempts = last.attempts0 + 1

\* C5: a command received on an open session whose handler returns normally
\* yields onCommand followed by exactly one ack with the same command_id and
\* status completed, sent on the socket that is current
C5_CommandAcked ==
    (last.op = "command" /\ last.state0 = "OPEN") =>
        /\ CurrentOpen
        /\ out = <<Ev("onCommand", last.code, 0),
                   Ev("sent:ack:completed", last.code, ws)>>

C5_Witness ==
    /\ last.op = "command"
    /\ last.state0 = "OPEN"
    /\ ~last.known
    /\ Len(out) = 2
    /\ out[2].ev = "sent:ack:completed"
    /\ out[2].id = last.code

\* C6: when onCommand throws, the exception stays inside handleMessage, the
\* transport is left alone, and the ack for that command_id is still sent
C6_ThrowingHandlerAcked ==
    (last.op = "command:throws" /\ last.state0 = "OPEN") =>
        /\ CurrentOpen
        /\ connected = last.connected0
        /\ \E i \in 1..Len(out) : out[i] = Ev("sent:ack:completed", last.code, ws)

\* C7: right after handleOpen the reconnect counter is 0, however many
\* attempts failed before
C7_OpenResetsCounter ==
    last.op = "open" => reconnectAttempts = 0

C7_Witness ==
    /\ last.op = "open"
    /\ last.attempts0 >= 2
    /\ reconnectAttempts = 0

\* C8: between handlers the heartbeat interval is armed iff this.connected;
\* there is never more than one, and handleClose and disconnect() stop it in
\* the step in which they clear the flag
C8_HeartbeatIffConnectedFlag ==
    /\ connected <=> intervals # {}
    /\ intervals = IF heartbeatInterval = 0 THEN {} ELSE {heartbeatInterval}
    /\ Cardinality(intervals) <= 1
    /\ last.op \in {"close", "disconnect"} => ~connected /\ intervals = {}

C8_Witness ==
    /\ last.op = "close"
    /\ last.connected0
    /\ last.intervals0 # {}
    /\ ~connected
    /\ intervals = {}

\* C9: when forceReconnect() or disconnect() returns, no retry timer and no
\* heartbeat timer that was armed before the call is still armed
C9_CancelsTimersOfOldSession ==
    last.op \in {"forceReconnect", "disconnect"} =>
        /\ timers \cap last.timers0 = {}
        /\ intervals \cap last.intervals0 = {}

\* C10: this.connected is true iff the current socket is open
C10_ConnectedIffCurrentOpen ==
    connected <=> CurrentOpen

\* C11 as stated: an open event alone does not make the client Connected; it
\* leaves the connected flag clear, starts no heartbeat and fires no
\* onConnected
C11_OpenAloneNotEnough ==
    last.op = "open" =>
        /\ ~connected
        /\ intervals = last.intervals0
        /\ \A i \in 1..Len(out) : out[i].ev # "onConnected"

\* C11: the open event alone makes the client Connected: handleOpen sets the
\* flag, resets the counter, starts the heartbeat of that socket and fires
\* onConnected once; the welcome message `connected` changes nothing and
\* notifies nobody
C11_OpenAloneConnects ==
    /\ last.op = "open" =>
          /\ connected
          /\ reconnectAttempts = 0
          /\ heartbeatInterval = last.sock
          /\ intervals = {last.sock}
          /\ out = <<Ev("onConnected", 0, 0)>>
    /\ (last.op = "message" /\ last.mtype = "connected") =>
          /\ connected = last.connected0
          /\ reconnectAttempts = last.attempts0
          /\ intervals = last.intervals0
          /\ timers = last.timers0
          /\ ws = last.ws0
          /\ out = <<>>

C11_Witness ==
    /\ last.op = "open"
    /\ ~last.connected0
    /\ last.intervals0 = {}
    /\ connected
    /\ intervals = {last.sock}
    /\ Len(out) = 1

\* the number of onReconnecting notifications among the events of a step
RECURSIVE Reconnectings(_)
Reconnectings(o) ==
    IF o = <<>> THEN 0
    ELSE (IF Head(o).ev = "onReconnecting" THEN 1 ELSE 0) + Reconnectings(Tail(o))

C14_AckDroppedWithSession ==
    [][LET l == last'
           c == IF l.effect = "disconnect" THEN disconnect(St)
                ELSE forceReconnect(St, Len(socks) + 1, 0)
       IN /\ l.effect # "none" =>
                /\ out' = <<Ev("onCommand", l.code, 0)>>
                /\ ws' = c.ws
                /\ connected' = c.connected
                /\ reconnectAttempts' = c.reconnectAttempts
                /\ reconnectTimer' = c.reconnectTimer
                /\ heartbeatInterval' = c.heartbeatInterval
                /\ socks' = c.socks
                /\ timers' = c.timers
                /\ intervals' = c.intervals
          /\ \A i \in 1..Len(out') :
                out'[i].ev = "sent:ack:completed" =>
                    /\ l.op \in {"command", "command:malformed"}
                    /\ l.effect = "none"
                    /\ out'[i].id = l.code
      ]_vars

C14_Witness ==
    /\ last.op = "command"
    /\ last.effect = "forceReconnect"
    /\ last.state0 = "OPEN"
    /\ last.sock = last.ws0
    /\ ws = last.nsocks0 + 1
    /\ socks[ws].state = "CONNECTING"
    /\ Len(out) = 1

\* C15: a frame that is not JSON is dropped: the step calls no handler and
\* sends nothing, and the flag, the counter, the sockets and the timers are
\* what they were
C15_UndecodableDropped ==
    [][(last'.op = "message" /\ last'.mtype = "garbled") =>
          /\ out' = <<>>
          /\ UNCHANGED <<ws, connected, reconnectAttempts, reconnectTimer,
                         heartbeatInterval, socks, timers, intervals>>
      ]_vars

C15_Witness ==
    /\ last.op = "message"
    /\ last.mtype = "garbled"
    /\ last.state0 = "OPEN"
    /\ last.sock = ws
    /\ connected
    /\ socks[ws].state = "OPEN"
    /\ out = <<>>

\* C16: a command frame without command_id or without command_type is
\* dropped: onCommand is not called and no ack is sent
C16_MalformedCommandDropped ==
    last.op = "command:malformed" => out = <<>>

\* C17 as stated: the delay returned for n attempts lies within
\* [cap(n) * (1 - JITTER), cap(n) * (1 + JITTER)] and is not negative
C17_DelayInsideJitterBand ==
    last.op = "delay" =>
        LET d == CappedDelay(last.attempts0)
            delay == out[1].delay
        IN /\ delay >= 0
           /\ delay * d.den * JITTER_DEN >= d.num * (JITTER_DEN - 1)
           /\ delay * d.den * JITTER_DEN <= d.num * (JITTER_DEN + 1)

\* C17: the delay returned for n attempts is an integer that is not
\* negative, lies within half a millisecond of the band
\* [cap(n) * (1 - JITTER), cap(n) * (1 + JITTER)] (Math.round moves it by up
\* to 0.5), and never exceeds MAX_DELAY * (1 + JITTER)
C17_DelayRoundedFromJitterBand ==
    last.op = "delay" =>
        LET d == CappedDelay(last.attempts0)
            delay == out[1].delay
        IN /\ delay >= 0
           /\ 2 * delay * d.den * JITTER_DEN
                 >= 2 * d.num * (JITTER_DEN - 1) - d.den * JITTER_DEN
           /\ 2 * delay * d.den * JITTER_DEN
                 <= 2 * d.num * (JITTER_DEN + 1) + d.den * JITTER_DEN
           /\ delay * JITTER_DEN <= MAX_DELAY * (JITTER_DEN + 1)

C17_Witness ==
    /\ last.op = "delay"
    /\ last.attempts0 = 4
    /\ last.code = 0
    /\ out[1].delay = 4556

\* C18: when an established session, with the counter at 0, is closed
\* abnormally (code 1006), the step announces attempt 1 with a delay within
\* the jitter band around BASE_DELAY
C18_FirstRetryAtBaseDelay ==
    (last.op = "close" /\ last.state0 = "OPEN" /\ last.sock = last.ws0
        /\ last.connected0 /\ last.attempts0 = 0 /\ last.code = ABNORMAL) =>
        \E i \in 1..Len(out) :
            /\ out[i].ev = "onReconnecting"
            /\ out[i].id = 1
            /\ out[i].delay * JITTER_DEN >= BASE_DELAY * (JITTER_DEN - 1)
            /\ out[i].delay * JITTER_DEN <= BASE_DELAY * (JITTER_DEN + 1)

\* the step just taken was a failed attempt that calls scheduleReconnect: a
\* close event with a code other than 1000, or connect() whose
\* `new WebSocket` threw
AttemptFailed ==
    \/ last.op = "close" /\ last.code # CLEAN_CLOSE
    \/ last.op \in {"connect", "timer", "forceReconnect"}
          /\ agentIdOk /\ ~urlOk

\* C19: while disconnect() is not called, every failed attempt is eventually
\* followed by another attempt, however many have failed before (up to the
\* number of attempts explored)
C19_FailedAttemptRetried ==
    \A n \in 1..(MaxSockets - 1) :
        (AttemptFailed /\ Len(socks) = n) ~> (Len(socks) > n)

C19_Witness ==
    /\ last.op = "timer"
    /\ last.attempts0 >= 2
    /\ Len(socks) = last.nsocks0 + 1
    /\ last.sock \notin timers

\* C20: connect() on a client whose agent id is missing or the placeholder
\* reports one onError of type config_error and nothing else: no socket is
\* created, no retry is scheduled, and the flag, the counter and the timers
\* are what they were
C20_ConfigErrorOnly ==
    (~agentIdOk /\ last.op = "connect") =>
        /\ out = <<Ev("onError:config_error", 0, 0)>>
        /\ socks = <<>>
        /\ Len(socks) = last.nsocks0
        /\ ws = last.ws0
        /\ connected = last.connected0
        /\ reconnectAttempts = last.attempts0
        /\ timers = last.timers0
        /\ intervals = last.intervals0
        /\ reconnectTimer = 0
        /\ heartbeatInterval = 0

C20_Witness ==
    /\ ~agentIdOk
    /\ last.op = "connect"
    /\ Len(out) = 1
    /\ out[1].ev = "onError:config_error"
    /\ timers = {}

\* C21: when `new WebSocket` throws inside connect(), whether the owner, a
\* retry timer or forceReconnect() called it, the call returns with the
\* failure handed to scheduleReconnect: the attempt is recorded as failed,
\* this.ws is not replaced, the counter is one more than connect() found it,
\* exactly one timer is armed (the tracked one) and it is announced once
C21_SyncFailureSchedulesOneRetry ==
    (agentIdOk /\ ~urlOk /\ last.op \in {"connect", "forceReconnect", "timer"}) =>
        /\ Len(socks) = last.nsocks0 + 1
        /\ socks[Len(socks)].state = "FAILED"
        /\ ws = last.ws0
        /\ reconnectAttempts =
              (IF last.op = "forceReconnect" THEN 0 ELSE last.attempts0) + 1
        /\ reconnectTimer = Len(socks)
        /\ timers \ last.timers0 = {reconnectTimer}
        /\ Reconnectings(out) = 1
        /\ out[Len(out)].id = reconnectAttempts

C21_Witness ==
    /\ agentIdOk
    /\ ~urlOk
    /\ last.op = "forceReconnect"
    /\ last.attempts0 >= 1
    /\ reconnectAttempts = 1
    /\ timers = {Len(socks)}

\* C22: after an abnormal close of the current session during which the
\* onDisconnected or the onReconnecting observer throws, the retry is armed
\* all the same: the tracked timer is pending and the counter has counted
\* this failure once
C22_ThrowingObserverKeepsRetry ==
    (last.op = "close:throws" /\ last.sock = last.ws0
        /\ last.state0 \in {"CONNECTING", "OPEN"}
        /\ last.code # CLEAN_CLOSE) =>
        /\ reconnectTimer # 0
        /\ reconnectTimer \in timers
        /\ reconnectAttempts = last.attempts0 + 1

\* C23: no socket other than the current one is connecting or open, and
\* every run of connect() that gets past the identity check makes a socket
\* that did not exist before, which becomes the current one when the
\* constructor succeeds
C23_OneLiveSession ==
    /\ \A s \in 1..Len(socks) :
          s # ws => socks[s].state \notin {"CONNECTING", "OPEN"}
    /\ (agentIdOk /\ last.op \in {"connect", "forceReconnect", "timer"}) =>
          /\ Len(socks) = last.nsocks0 + 1
          /\ urlOk => ws = Len(socks) /\ socks[ws].state = "CONNECTING"

C23_Witness ==
    /\ last.op = "forceReconnect"
    /\ last.connected0
    /\ last.ws0 # 0
    /\ socks[last.ws0].state = "CLOSING"
    /\ socks[last.ws0].closedFrom = "OPEN"
    /\ ws = last.ws0 + 1
    /\ socks[ws].state = "CONNECTING"

\* C24 as stated: every transition notifies the observers, also the one into
\* Connecting made by connect() and the one into Disconnected made by
\* disconnect()
C24_EveryTransitionNotifies ==
    /\ (last.op \in {"connect", "forceReconnect", "timer"}
           /\ Len(socks) > last.nsocks0) => out # <<>>
    /\ (last.op = "disconnect" /\ last.ws0 # 0) => out # <<>>

\* C24: the observers are notified of Connected (onConnected, by the open
\* event), of a closed socket (onDisconnected with its code, by the close
\* event) and of Reconnecting (onReconnecting, which carries the counter as it
\* now stands and the very delay given to setTimeout, whose timer is the
\* tracked one); connect(), forceReconnect(), a firing timer and disconnect()
\* notify nobody when they start or end a session
C24_NotifiedTransitions ==
    /\ last.op = "open" => out = <<Ev("onConnected", 0, 0)>>
    /\ last.op = "close" =>
          /\ out[1] = Ev("onDisconnected", last.code, 0)
          /\ Len(out) = (IF last.code = CLEAN_CLOSE THEN 1 ELSE 2)
    /\ last.op \in {"connect", "forceReconnect", "timer", "disconnect"} =>
          out = <<>>
    /\ \A i \in 1..Len(out) :
          out[i].ev = "onReconnecting" =>
              /\ out[i] = EvReconnecting(reconnectAttempts, last.armedFor)
              /\ last.armedFor > 0
              /\ reconnectTimer \in timers
              /\ reconnectTimer \notin last.timers0

C24_Witness ==
    /\ last.op = "close"
    /\ last.attempts0 = 1
    /\ Len(out) = 2
    /\ out[2].id = 2
    /\ out[2].delay = last.armedFor
    /\ last.armedFor > 2 * BASE_DELAY

\* ------------------------------------------------------ one session's frames
\* the server puts frame m on the open session
ServerSends(m) ==
    /\ ws # 0
    /\ socks[ws].state = "OPEN"
    /\ Len(sent) < MaxInFlight
    /\ sent' = Append(sent, m)
    /\ UNCHANGED <<clientVars, handled, trace, appVars>>

\* the browser delivers the next frame of the session: message events are
\* dispatched in the order the frames arrived, each as one run of
\* handleMessage
Deliver ==
    /\ ws # 0
    /\ socks[ws].state = "OPEN"
    /\ handled < Len(sent)
    /\ LET m == sent[handled + 1]
           c == handleMessage(St, m)
       IN /\ CommitClient(c,
                          [Snapshot(MessageOp(m), ws, m.command_id) EXCEPT
                              !.known = m.known, !.mtype = m.type,
                              !.effect = m.effect],
                          wanted)
          /\ trace' = trace \o c.out
    /\ handled' = handled + 1
    /\ UNCHANGED <<sent, appVars>>

\* one session from connect() on, with the frames the server sends on it
NextOrder ==
    \/ ws = 0 /\ Connect(0)
    \/ \E s \in 1..Len(socks) : SockOpen(s)
    \/ \E m \in Messages : ServerSends(m)
    \/ Deliver

SpecOrder ==
    Init /\ [][NextOrder]_vars

\* what handling the frames of seq one after the other, each to its end,
\* hands to the command handler and puts on the socket
RECURSIVE InOrder(_)
InOrder(seq) ==
    IF seq = <<>> THEN <<>>
    ELSE LET m == Head(seq)
         IN (IF m.json /\ m.type = "command"
             THEN <<Ev("onCommand", m.command_id, 0)>>
                  \o (IF m.throws THEN <<>>
                      ELSE <<Ev("sent:ack:completed", m.command_id, ws)>>)
             ELSE <<>>)
            \o InOrder(Tail(seq))

\* C25: on one session the commands reach the command handler in the order
\* the transport delivered their frames, and each command's ack is sent
\* right after its handler returned and before the next command is handled:
\* nothing is reordered, batched or interleaved
C25_DispatchedInOrder ==
    trace = InOrder(SubSeq(sent, 1, handled))

\* two commands with different ids have been handled and acknowledged
C25_Witness ==
    /\ handled >= 2
    /\ \E i, j \in 1..handled :
          /\ i < j
          /\ sent[i].type = "command" /\ sent[j].type = "command"
          /\ ~sent[i].throws /\ ~sent[j].throws
          /\ sent[i].command_id # sent[j].command_id
          /\ sent[i].command_id # 0 /\ sent[j].command_id # 0
    /\ Len(trace) >= 4

\* ------------------------------------------------- the application's steps
\* one handler of the application ran to its end and left a; appLast keeps
\* what the handler found and whether a clear_content or power_off has been
\* handled with no display_scene or show_content after it
AppStep(a, op) ==
    /\ storage' = a.storage
    /\ screen' = a.screen
    /\ currentScene' = a.currentScene
    /\ appLast' = [op |-> op, storage |-> storage, screen |-> screen,
                   now |-> now,
                   cleared |->
                       CASE op \in {"clear_content", "power_off"} -> TRUE
                         [] op \in {"display_scene", "show_content"} -> FALSE
                         [] OTHER -> appLast.cleared]
    /\ UNCHANGED <<now, clientVars, wireVars>>

\* the client reports onConnected: a socket has opened
HandleConnected ==
    /\ AppStep(handleConnected(Ap, now), "connected")
    /\ appConnected' = TRUE

\* the client reports onDisconnected: handleDisconnected clears the flag
HandleDisconnected ==
    /\ appConnected
    /\ AppStep(Ap, "disconnected")
    /\ appConnected' = FALSE

\* the client hands a command to XentauriApp.handleCommand
AppCommand(cmd) ==
    /\ appConnected
    /\ AppStep(appHandleCommand(Ap, cmd, now), cmd.commandType)
    /\ UNCHANGED appConnected

\* the page is reloaded (or the device rebooted): the renderer and the
\* application start over, localStorage is kept
Reload ==
    /\ AppStep([Ap EXCEPT !.screen = Blank, !.currentScene = 0], "reload")
    /\ appConnected' = FALSE

\* time passes
Tick ==
    /\ now < MaxClock
    /\ now' = now + 1
    /\ UNCHANGED <<storage, screen, currentScene, appConnected, appLast,
                   clientVars, wireVars>>

NextApp ==
    \/ HandleConnected
    \/ HandleDisconnected
    \/ \E cmd \in AppCommands : AppCommand(cmd)
    \/ Reload
    \/ Tick

SpecApp ==
    Init /\ [][NextApp]_vars

\* C26: restoreState() run twice in a row, on two successive connections
\* with no command and no reload in between and with the record still
\* young enough at the second one, leaves the display and the persisted
\* record, timestamp included, as the first run left them
C26_RestoreIdempotent ==
    [][(/\ appLast.op = "connected"
        /\ appLast'.op = "connected"
        /\ storage # NoRecord
        /\ ~Expired(storage, now'))
       => (storage' = storage /\ screen' = screen)]_vars

\* the display shows what the record rec holds
Shows(scr, rec) ==
    CASE rec.type = "scene" ->
            scr.kind = "scene" /\ scr.scene = rec.data.scene
      [] rec.type = "custom_layout" ->
            scr.kind = "custom_layout"
            /\ scr.customLayout = rec.data.customLayout
      [] rec.type = "content" ->
            scr.kind = "iframe" /\ scr.src = rec.data.url
      [] OTHER -> FALSE

\* C27: on a connection the persisted record is restored unchanged if it
\* was saved at most MAX_AGE (one hour) earlier: the display shows its
\* content and the record is kept as it was; an older record is removed and
\* nothing is restored (the display stays as it was or shows the idle screen)
C27_RestoredIffYoung ==
    (appLast.op = "connected" /\ appLast.storage # NoRecord)
    => IF Expired(appLast.storage, appLast.now)
       THEN /\ storage = NoRecord
            /\ screen = appLast.screen \/ screen.kind = "idle"
       ELSE storage = appLast.storage /\ Shows(screen, appLast.storage)

\* C30: once clear_content or power_off has been handled and until a
\* display_scene or show_content command arrives, nothing is persisted and
\* nothing is displayed, and every connection, after a reload or not, ends
\* with the idle screen
C30_ClearedStaysCleared ==
    appLast.cleared
    => /\ storage = NoRecord
       /\ currentScene = 0
       /\ screen.kind \in {"idle", "blank"}
       /\ appLast.op \in {"connected", "clear_content", "power_off"}
             => screen.kind = "idle"

\* a connection after a reload that followed a clear_content or power_off
C30_Witness ==
    /\ appLast.cleared
    /\ appLast.op = "connected"
    /\ appLast.screen = Blank
    /\ now > 0

\* C28: the close event of a socket that connect() or forceReconnect() has
\* already replaced leaves the new session alone: the connected flag, the
\* heartbeat, the reconnect counter and the retry timers are as they were
C28_StaleCloseIgnored ==
    (last.op = "close" /\ last.ws0 # 0 /\ last.sock # last.ws0)
    => /\ connected = last.connected0
       /\ intervals = last.intervals0
       /\ reconnectAttempts = last.attempts0
       /\ timers = last.timers0

\* --------------------------------------- a server that accepts and never closes
\* the oldest attempt is over and nothing refers to it: its socket is closed,
\* it is not this.ws, and no timer or interval carries its index
Collectable ==
    /\ Len(socks) > 0
    /\ socks[1].state \in {"CLOSED", "FAILED"}
    /\ ws # 1
    /\ 1 \notin timers \cup intervals \cup {reconnectTimer, heartbeatInterval}

\* the index of an attempt once the oldest one is dropped; 0 stays null
Renumber(i) ==
    IF i = 0 THEN 0 ELSE i - 1

\* the browser drops the WebSocket object of the oldest attempt: every index
\* moves down by one, nothing the client can observe changes
Collect ==
    /\ Collectable
    /\ socks' = Tail(socks)
    /\ ws' = Renumber(ws)
    /\ reconnectTimer' = Renumber(reconnectTimer)
    /\ heartbeatInterval' = Renumber(heartbeatInterval)
    /\ timers' = {Renumber(t) : t \in timers}
    /\ intervals' = {Renumber(h) : h \in intervals}
    /\ UNCHANGED <<agentIdOk, urlOk, connected, reconnectAttempts, out,
                   wanted, last, wireVars, appVars>>

\* the server accepts a connection the client is waiting for
ServerAccepts ==
    \E s \in 1..Len(socks) : SockOpen(s)

\* the closing handshake of a socket the client has closed ends: its close
\* event is delivered. No other socket closes
ClosingEnds ==
    \E s \in 1..Len(socks) :
       /\ socks[s].state = "CLOSING"
       /\ \E code \in CloseCodes(socks[s]) :
             \E k \in SamplesIf(code # CLEAN_CLOSE) : SockClose(s, code, k)

\* a retry timer fires once the attempt under way has been accepted: the
\* server answers a connection within the 900 ms that the shortest retry
\* delay lasts
RetryAfterAccept ==
    /\ ws # 0 => socks[ws].state # "CONNECTING"
    /\ RetryTimerFires

\* nothing but the current attempt is under way: no retry is pending and
\* every earlier socket has delivered its close event
Quiet ==
    /\ timers = {}
    /\ \A s \in 1..Len(socks) :
          s # ws => socks[s].state \in {"CLOSED", "FAILED"}

\* the owner calls connect() once and then forceReconnect(), from Connecting
\* or Connected, whenever nothing else is under way; the server accepts
\* every connection and never closes one and sends what frames it likes;
\* timers fire and heartbeats tick
NextAccepting ==
    \/ ws = 0 /\ Connect(0)
    \/ ws # 0 /\ Quiet /\ ForceReconnect(0)
    \/ ServerAccepts
    \/ ClosingEnds
    \/ RetryAfterAccept
    \/ \E h \in intervals : HeartbeatTick(h)
    \/ \E s \in 1..Len(socks) : \E m \in Messages : SockMessage(s, m)
    \/ Collect

\* every connection is accepted, every closing handshake ends, every armed
\* timer fires after its finite delay
SpecAccepting ==
    /\ Init
    /\ [][NextAccepting]_vars
    /\ WF_vars(ServerAccepts)
    /\ WF_vars(ClosingEnds)
    /\ WF_vars(RetryAfterAccept)
    /\ WF_vars(Collect)

\* the owner calls neither connect() nor forceReconnect() in this step
NoOwnerCall ==
    last'.op \in {"connect", "forceReconnect"} => last' = last

\* the session is up and nothing is pending
Settled ==
    CurrentOpen /\ connected /\ timers = {}

\* C29: with a server that accepts every connection and never closes one,
\* once forceReconnect() has been called from Connected or Connecting and
\* the owner makes no further call, the client eventually is Connected and
\* stays so, with no retry pending from some point on
C29_SettlesAfterForceReconnect ==
    (/\ <>(last.op = "forceReconnect" /\ last.ws0 # 0)
     /\ <>[][NoOwnerCall]_vars)
    => <>[]Settled
====
